---------------------------- MODULE Spec2Model ----------------------------
(***************************************************************************)
(* Model of the ScanMate board-detection pipeline                          *)
(* (backend/core/board/detector.py) and of the /fen endpoint               *)
(* (backend/server/main.py).                                               *)
(*                                                                         *)
(* An image is abstracted by what find_corners extracts from it: the list  *)
(* of its external contours, each with its enclosed area (cv2.contourArea) *)
(* and its polygon approximation (cv2.approxPolyDP), and by what the       *)
(* classifier answers for each region of the rectified board.              *)
(***************************************************************************)
EXTENDS Integers, Sequences, FiniteSets, TLC

VARIABLES
    pc,         \* position of the request: get_fen / load_board_from_image
    contours,   \* the image's external contours, in findContours' order
    placement,  \* what the classifier answers for each board coordinate
    corners,    \* find_corners' result: <<>> (None) or 4 ordered points
    warped,     \* warp_board's result: [height, width] of the canvas
    squares,    \* extract_squares' dict, in insertion order
    idx,        \* position of the classification loop in squares (1-based)
    board,      \* the chess.Board under construction: square index -> piece
    result,     \* what load_board_from_image handed to its caller
    response,   \* what get_fen answered
    log         \* the stage calls made so far, in order

vars == <<pc, contours, placement, corners, warped, squares, idx, board,
          result, response, log>>

----------------------------------------------------------------------------
(* Bounds of the model.                                                    *)

\* longest contour list a scene of the whole pipeline holds
MaxSceneLen == 2
\* longest contour list given to find_corners alone
MaxContours == 11
\* number of shifted label patterns among the stub classifier's placements
MaxShift == 2
\* largest canvas side given to extract_squares alone (besides output_size)
MaxSide == 64
\* corner coordinates given to _order_corners alone range over 0..GridMax
GridMax == 3
\* the classification loop alone starts from the dict's item 1..MaxRot + 1
MaxRot == 2

----------------------------------------------------------------------------
(* Program constants.                                                      *)

\* warp_board(..., output_size: int = 800)
output_size == 800
\* contours[:10]
TopN == 10
\* cv2.contourArea(contour) > 10000
MinArea == 10000

\* enumerate("87654321") and enumerate("abcdefgh") of extract_squares
RankChars == <<"8", "7", "6", "5", "4", "3", "2", "1">>
FileChars == <<"a", "b", "c", "d", "e", "f", "g", "h">>

\* pieces_config["class_names"]: the 12 piece classes and the empty class
ClassNames ==
    <<"bB", "bK", "bN", "bP", "bQ", "bR",
      "wB", "wK", "wN", "wP", "wQ", "wR", "xx">>

\* a chess.Piece; NoPiece is what Board.piece_at gives for an empty square
Piece(t, c) == [piece_type |-> t, color |-> c]
NoPiece == Piece("none", "none")

\* the dict piece_map of load_board_from_image
piece_map ==
    [l \in {"wP", "wN", "wB", "wR", "wQ", "wK",
            "bP", "bN", "bB", "bR", "bQ", "bK"} |->
        CASE l = "wP" -> Piece("PAWN", "WHITE")
          [] l = "wN" -> Piece("KNIGHT", "WHITE")
          [] l = "wB" -> Piece("BISHOP", "WHITE")
          [] l = "wR" -> Piece("ROOK", "WHITE")
          [] l = "wQ" -> Piece("QUEEN", "WHITE")
          [] l = "wK" -> Piece("KING", "WHITE")
          [] l = "bP" -> Piece("PAWN", "BLACK")
          [] l = "bN" -> Piece("KNIGHT", "BLACK")
          [] l = "bB" -> Piece("BISHOP", "BLACK")
          [] l = "bR" -> Piece("ROOK", "BLACK")
          [] l = "bQ" -> Piece("QUEEN", "BLACK")
          [] l = "bK" -> Piece("KING", "BLACK")]

----------------------------------------------------------------------------
(* Corner finder: find_corners and _order_corners.                         *)

\* find_corners returns (None, debug_img) for "not found"
None == <<>>

Range(s) == {s[i] : i \in DOMAIN s}

\* a contour as find_corners reads it: cv2.contourArea(contour) and
\* cv2.approxPolyDP(contour, 0.02 * peri, True)
Contour(a, p) == [area |-> a, approx |-> p]

\* one insertion of the stable descending sort: x goes behind every element
\* whose area is not smaller
RECURSIVE InsertByArea(_, _)
InsertByArea(x, s) ==
    IF s = <<>> THEN <<x>>
    ELSE IF s[1].area >= x.area
         THEN <<s[1]>> \o InsertByArea(x, Tail(s))
         ELSE <<x>> \o s

\* sorted(contours, key=cv2.contourArea, reverse=True): stable, so contours
\* of equal area keep their input order
RECURSIVE SortedByArea(_)
SortedByArea(s) ==
    IF s = <<>> THEN <<>>
    ELSE InsertByArea(s[Len(s)], SortedByArea(SubSeq(s, 1, Len(s) - 1)))

\* contours[:10]
Head10(s) == SubSeq(s, 1, IF Len(s) < TopN THEN Len(s) ELSE TopN)

\* (variant) the area test admits the threshold itself
Qualifies_AtLeast(c) == Len(c.approx) = 4 /\ c.area >= MinArea

\* len(approx) == 4 and cv2.contourArea(contour) > 10000
Qualifies(c) == Len(c.approx) = 4 /\ c.area > MinArea

\* the for loop with its break: the first qualifying candidate's approx,
\* or None
RECURSIVE FirstQualifying(_)
FirstQualifying(s) ==
    IF s = <<>> THEN None
    ELSE IF Qualifies(s[1]) THEN s[1].approx
         ELSE FirstQualifying(Tail(s))

\* find_corners up to the call of _order_corners: the selected approx
SelectCandidate(cs) ==
    IF cs = <<>> THEN None
    ELSE FirstQualifying(Head10(SortedByArea(cs)))

\* the index orders of 2 and of 4 elements
Perms2 == Permutations(1..2)
Perms4 == Permutations(1..4)

\* np.argsort(key): every index order that sorts the keys increasingly; the
\* order of equal keys is not fixed by numpy's default sort
ArgSorts(pts, k) ==
    {p \in (IF Len(pts) = 2 THEN Perms2 ELSE Perms4) :
        \A i \in 1..(Len(pts) - 1) : pts[p[i]][k] <= pts[p[i + 1]][k]}

\* _order_corners: split by y into a top and a bottom pair, order each pair
\* by x, and return [top_left, top_right, bottom_right, bottom_left]
OrderCorners(pts) ==
    UNION {
        LET top_points == <<pts[py[1]], pts[py[2]]>>
            bottom_points == <<pts[py[3]], pts[py[4]]>>
        IN  {<<top_points[tx[1]], top_points[tx[2]],
               bottom_points[bx[2]], bottom_points[bx[1]]>> :
                tx \in ArgSorts(top_points, 1),
                bx \in ArgSorts(bottom_points, 1)}
        : py \in ArgSorts(pts, 2)}

\* find_corners: None, or the selected approx ordered by _order_corners
FindCorners(cs) ==
    LET approx == SelectCandidate(cs)
    IN  IF approx = None THEN {None} ELSE OrderCorners(approx)

----------------------------------------------------------------------------
(* Rectifier and partitioner: warp_board and extract_squares.              *)

\* warp_board: cv2.warpPerspective(img, matrix, (output_size, output_size));
\* the transform is computed from the corners as they come, unchecked
WarpBoard(cs) == [height |-> output_size, width |-> output_size]

\* (variant) the tile side rounded up instead of down
Tile_RoundUp(row, col, h, w) ==
    [y0 |-> row * ((h + 7) \div 8), y1 |-> (row + 1) * ((h + 7) \div 8),
     x0 |-> col * ((w + 7) \div 8), x1 |-> (col + 1) * ((w + 7) \div 8)]

\* the slice warped_board[y0:y1, x0:x1] of the tile at grid (row, col),
\* rows and columns counted from 0
Tile(row, col, h, w) ==
    [y0 |-> row * (h \div 8), y1 |-> (row + 1) * (h \div 8),
     x0 |-> col * (w \div 8), x1 |-> (col + 1) * (w \div 8)]

\* (variant) the ranks enumerated upwards, "12345678"
SquareKey_Upright(row, col) == FileChars[col + 1] \o RankChars[8 - row]

\* f"{file}{rank}" of the enumerate loops
SquareKey(row, col) == FileChars[col + 1] \o RankChars[row + 1]

\* the key and the tile of the n-th iteration of the two nested loops,
\* n = 8 * row + col
GridKey(n) == SquareKey(n \div 8, n % 8)
GridTile(n, h, w) == Tile(n \div 8, n % 8, h, w)

\* extract_squares: the dict the 64 assignments squares[key] = tile leave.
\* A dict holds one item per distinct key, in the order of the keys' first
\* insertion, each with the value last assigned to it
ExtractSquares(wb) ==
    LET first == SelectSeq([i \in 1..64 |-> i - 1],
                    LAMBDA n : \A m \in 0..(n - 1) : GridKey(m) # GridKey(n))
        last(n) == CHOOSE m \in n..63 :
                        /\ GridKey(m) = GridKey(n)
                        /\ \A k \in (m + 1)..63 : GridKey(k) # GridKey(n)
    IN  [i \in 1..Len(first) |->
            [name |-> GridKey(first[i]),
             tile |-> GridTile(last(first[i]), wb.height, wb.width)]]

----------------------------------------------------------------------------
(* The chess library as load_board_from_image uses it.                     *)

\* chess.FILE_NAMES, chess.RANK_NAMES
FILE_NAMES == <<"a", "b", "c", "d", "e", "f", "g", "h">>
RANK_NAMES == <<"1", "2", "3", "4", "5", "6", "7", "8">>

\* chess.SQUARE_NAMES: a1 is square 0, b1 is 1, ..., h8 is 63
SQUARE_NAMES == [i \in 0..63 |-> FILE_NAMES[(i % 8) + 1] \o RANK_NAMES[(i \div 8) + 1]]

AllCoords == {SQUARE_NAMES[i] : i \in 0..63}

\* chess.parse_square(name): the index of the name in SQUARE_NAMES
parse_square(name) == CHOOSE i \in 0..63 : SQUARE_NAMES[i] = name

\* chess.Board.empty()
EmptyBoard == [i \in 0..63 |-> NoPiece]

\* no chess.Board exists (before line 310, and in a result without a board)
NoBoard == <<>>

\* board.set_piece_at(square, piece)
set_piece_at(b, sq, piece) == [b EXCEPT ![sq] = piece]

\* piece.symbol(): upper case for white, lower case for black
Symbol(piece) ==
    CASE piece = Piece("PAWN", "WHITE") -> "P"
      [] piece = Piece("KNIGHT", "WHITE") -> "N"
      [] piece = Piece("BISHOP", "WHITE") -> "B"
      [] piece = Piece("ROOK", "WHITE") -> "R"
      [] piece = Piece("QUEEN", "WHITE") -> "Q"
      [] piece = Piece("KING", "WHITE") -> "K"
      [] piece = Piece("PAWN", "BLACK") -> "p"
      [] piece = Piece("KNIGHT", "BLACK") -> "n"
      [] piece = Piece("BISHOP", "BLACK") -> "b"
      [] piece = Piece("ROOK", "BLACK") -> "r"
      [] piece = Piece("QUEEN", "BLACK") -> "q"
      [] piece = Piece("KING", "BLACK") -> "k"

Digit(n) == <<"1", "2", "3", "4", "5", "6", "7", "8">>[n]

\* board_fen for the squares from sq to the end of its rank, with `empty`
\* empty squares pending
RECURSIVE RankFen(_, _, _)
RankFen(b, sq, empty) ==
    LET flush == IF empty > 0 THEN Digit(empty) ELSE ""
        last == sq % 8 = 7
    IN  IF b[sq] = NoPiece
        THEN IF last THEN Digit(empty + 1) ELSE RankFen(b, sq + 1, empty + 1)
        ELSE flush \o Symbol(b[sq])
                \o (IF last THEN "" ELSE RankFen(b, sq + 1, 0))

\* board.fen() of a board made by Board.empty(): the placement from rank 8
\* down to rank 1, white to move, no castling rights, no en passant square
RECURSIVE BoardFen(_, _)
BoardFen(b, rank) ==
    RankFen(b, 8 * rank, 0)
        \o (IF rank = 0 THEN "" ELSE "/" \o BoardFen(b, rank - 1))

Fen(b) == BoardFen(b, 7) \o " w - - 0 1"

----------------------------------------------------------------------------
(* Classification and assembly.                                            *)

\* the coordinate a region of the rectified canvas shows: row 0 of the canvas
\* is rank 8, column 0 is file a
RegionCoord(tile) ==
    FILE_NAMES[(tile.x0 \div (output_size \div 8)) + 1]
        \o RANK_NAMES[8 - (tile.y0 \div (output_size \div 8))]

\* detect_piece with the classifier answering from the known placement: the
\* class name of what stands on the region the tile shows
detect_piece(tile, known) == known[RegionCoord(tile)]

\* (variant) the piece put on the vertically mirrored square
FoldSquare_Mirrored(b, square_name, piece_class) ==
    IF piece_class # "xx"
    THEN set_piece_at(b, 8 * (7 - (parse_square(square_name) \div 8))
                            + (parse_square(square_name) % 8),
                      piece_map[piece_class])
    ELSE b

\* lines 313-315: a label other than "xx" puts piece_map[label] on the square
FoldSquare(b, square_name, piece_class) ==
    IF piece_class # "xx"
    THEN set_piece_at(b, parse_square(square_name), piece_map[piece_class])
    ELSE b

----------------------------------------------------------------------------
(* Inputs.  Corner points are given on a coarse grid of the image; the     *)
(* area of a contour is its own attribute (cv2.contourArea of the raw      *)
(* contour), as find_corners reads it.                                     *)

\* approximations of a board seen head-on, of an arrow-head shaped (concave)
\* outline, and of a five-sided outline
SquareShape == <<<<0, 0>>, <<0, 3>>, <<3, 3>>, <<3, 0>>>>
DartShape == <<<<0, 0>>, <<2, 1>>, <<4, 0>>, <<2, 4>>>>
PentagonShape == <<<<0, 1>>, <<2, 0>>, <<4, 1>>, <<3, 3>>, <<1, 3>>>>
TriangleShape == <<<<0, 0>>, <<4, 0>>, <<2, 3>>>>

SeqsUpTo(S, n) == UNION {[1..k -> S] : k \in 0..n}

\* the contours of the scenes the whole pipeline is run on
SceneContours ==
    {Contour(2 * MinArea, SquareShape), Contour(MinArea, SquareShape),
     Contour(3 * MinArea, DartShape), Contour(3 * MinArea, PentagonShape)}

Scenes == SeqsUpTo(SceneContours, MaxSceneLen)

\* the standard initial position
BackRank == <<"R", "N", "B", "Q", "K", "B", "N", "R">>
StartPlacement ==
    [i \in 0..63 |->
        CASE i \div 8 = 0 -> "w" \o BackRank[(i % 8) + 1]
          [] i \div 8 = 1 -> "wP"
          [] i \div 8 = 6 -> "bP"
          [] i \div 8 = 7 -> "b" \o BackRank[(i % 8) + 1]
          [] OTHER -> "xx"]

\* the 13 class names laid out cyclically over the 64 squares, from the
\* s-th on: every class on some square, every square with every class as s
\* varies
ShiftedPlacement(s) == [i \in 0..63 |-> ClassNames[((i + s) % 13) + 1]]

\* a known placement: coordinate -> class name
ByCoord(f) == [c \in AllCoords |-> f[parse_square(c)]]

Placements ==
    {ByCoord(StartPlacement), ByCoord([i \in 0..63 |-> "xx"])}
        \cup {ByCoord(ShiftedPlacement(s)) : s \in 1..MaxShift}

----------------------------------------------------------------------------
(* State of a request.                                                     *)

NoCanvas == [height |-> 0, width |-> 0]

\* what load_board_from_image handed to its caller: nothing yet, None, a
\* board, or an exception
Pending == [kind |-> "pending", board |-> NoBoard, exc |-> ""]
ReturnNone == [kind |-> "none", board |-> NoBoard, exc |-> ""]
ReturnBoard(b) == [kind |-> "board", board |-> b, exc |-> ""]
Raise(e) == [kind |-> "raise", board |-> NoBoard, exc |-> e]

\* get_fen's answer: the JSON body {"fen": ...}, or the framework's answer to
\* an exception that get_fen lets through
NoResponse == [status |-> 0, fen |-> ""]
Ok(f) == [status |-> 200, fen |-> f]
InternalServerError == [status |-> 500, fen |-> ""]

\* a logged call: the function, the square it was called for (detect_piece),
\* and what it answered (find_corners: "None" or "corners"; detect_piece: the
\* class name; either: "raise")
Call(f, a, out) == [call |-> f, arg |-> a, out |-> out]

InitWith(p, cs, pl, wb) ==
    /\ pc = p
    /\ contours = cs
    /\ placement = pl
    /\ corners = None
    /\ warped = wb
    /\ squares = <<>>
    /\ idx = 0
    /\ board = NoBoard
    /\ result = Pending
    /\ response = NoResponse
    /\ log = <<>>

Init == \E cs \in Scenes, pl \in Placements : InitWith("get_fen", cs, pl, NoCanvas)

----------------------------------------------------------------------------
(* get_fen and load_board_from_image, one action per step.                 *)

\* Image.open(board_file.file) succeeds; BoardDetector() is built and
\* load_board_from_image is entered
GetFen_Open ==
    /\ pc = "get_fen"
    /\ pc' = "find_corners"
    /\ UNCHANGED <<contours, placement, corners, warped, squares, idx, board,
                   result, response, log>>

\* Image.open raises on bytes that are no image: get_fen lets it through
GetFen_DecodeFail ==
    /\ pc = "get_fen"
    /\ pc' = "responded"
    /\ response' = InternalServerError
    /\ UNCHANGED <<contours, placement, corners, warped, squares, idx, board,
                   result, log>>

\* (variant) no return on None: the pipeline goes on without corners
LoadBoard_FindCorners_NoAbort ==
    /\ pc = "find_corners"
    /\ \E cs \in FindCorners(contours) :
        /\ corners' = cs
        /\ log' = Append(log, Call("find_corners", "",
                            IF cs = None THEN "None" ELSE "corners"))
    /\ pc' = "warp_board"
    /\ UNCHANGED <<contours, placement, warped, squares, idx, board, result,
                   response>>

\* lines 288-290: find_corners, and the return of None when it found none
LoadBoard_FindCorners ==
    /\ pc = "find_corners"
    /\ \E cs \in FindCorners(contours) :
        /\ corners' = cs
        /\ IF cs = None
           THEN /\ pc' = "returned"
                /\ result' = ReturnNone
                /\ log' = Append(log, Call("find_corners", "", "None"))
           ELSE /\ pc' = "warp_board"
                /\ UNCHANGED result
                /\ log' = Append(log, Call("find_corners", "", "corners"))
    /\ UNCHANGED <<contours, placement, warped, squares, idx, board, response>>

\* line 288 raises: cv2.cvtColor (line 176) refuses an image that has not 3
\* or 4 channels, and the exception leaves load_board_from_image
LoadBoard_FindCornersRaise ==
    /\ pc = "find_corners"
    /\ log' = Append(log, Call("find_corners", "", "raise"))
    /\ result' = Raise("cv2.error")
    /\ pc' = "returned"
    /\ UNCHANGED <<contours, placement, corners, warped, squares, idx, board,
                   response>>

\* line 292: warp_board
LoadBoard_Warp ==
    /\ pc = "warp_board"
    /\ warped' = WarpBoard(corners)
    /\ log' = Append(log, Call("warp_board", "", ""))
    /\ pc' = "extract_squares"
    /\ UNCHANGED <<contours, placement, corners, squares, idx, board, result,
                   response>>

\* lines 293-310: extract_squares, then piece_map and the empty board
LoadBoard_Extract ==
    /\ pc = "extract_squares"
    /\ squares' = ExtractSquares(warped)
    /\ board' = EmptyBoard
    /\ idx' = 1
    /\ log' = Append(log, Call("extract_squares", "", ""))
    /\ pc' = "classify"
    /\ UNCHANGED <<contours, placement, corners, warped, result, response>>

\* (variant) detect_piece called once for the test and once for the lookup
LoadBoard_Classify_Twice ==
    /\ pc = "classify"
    /\ idx <= Len(squares)
    /\ LET piece_class == detect_piece(squares[idx].tile, placement)
           once == Append(log, Call("detect_piece", squares[idx].name,
                                    piece_class))
       IN  /\ board' = FoldSquare(board, squares[idx].name, piece_class)
           /\ log' = IF piece_class # "xx"
                     THEN Append(once, Call("detect_piece", squares[idx].name,
                                            piece_class))
                     ELSE once
    /\ idx' = idx + 1
    /\ UNCHANGED <<pc, contours, placement, corners, warped, squares, result,
                   response>>

\* lines 311-315, one iteration: detect_piece answers a class name and the
\* square is folded into the board
LoadBoard_Classify ==
    /\ pc = "classify"
    /\ idx <= Len(squares)
    /\ board' = FoldSquare(board, squares[idx].name,
                           detect_piece(squares[idx].tile, placement))
    /\ idx' = idx + 1
    /\ log' = Append(log, Call("detect_piece", squares[idx].name,
                                 detect_piece(squares[idx].tile, placement)))
    /\ UNCHANGED <<pc, contours, placement, corners, warped, squares, result,
                   response>>

\* (variant) the exception is swallowed and the board built so far returned
LoadBoard_ClassifyRaise_BestEffort ==
    /\ pc = "classify"
    /\ idx <= Len(squares)
    /\ log' = Append(log, Call("detect_piece", squares[idx].name, "raise"))
    /\ result' = ReturnBoard(board)
    /\ pc' = "returned"
    /\ UNCHANGED <<contours, placement, corners, warped, squares, idx, board,
                   response>>

\* line 312 raises: the model call fails, and the exception leaves
\* load_board_from_image
LoadBoard_ClassifyRaise ==
    /\ pc = "classify"
    /\ idx <= Len(squares)
    /\ log' = Append(log, Call("detect_piece", squares[idx].name, "raise"))
    /\ result' = Raise("ClassificationFailure")
    /\ pc' = "returned"
    /\ UNCHANGED <<contours, placement, corners, warped, squares, idx, board,
                   response>>

\* line 315 raises: detect_piece answered a name piece_map does not hold
\* (and not "xx"), and piece_map[piece_class] is a KeyError
LoadBoard_ClassifyUnknown ==
    /\ pc = "classify"
    /\ idx <= Len(squares)
    /\ \E piece_class \in {"??"} :
        /\ piece_class # "xx"
        /\ piece_class \notin DOMAIN piece_map
        /\ log' = Append(log, Call("detect_piece", squares[idx].name,
                                     piece_class))
    /\ result' = Raise("KeyError")
    /\ pc' = "returned"
    /\ UNCHANGED <<contours, placement, corners, warped, squares, idx, board,
                   response>>

\* line 317: the loop is over, return board
LoadBoard_Return ==
    /\ pc = "classify"
    /\ idx > Len(squares)
    /\ result' = ReturnBoard(board)
    /\ pc' = "returned"
    /\ UNCHANGED <<contours, placement, corners, warped, squares, idx, board,
                   response, log>>

\* line 26: {"fen": board.fen()}.  On None, board.fen() is an AttributeError;
\* that and an exception of load_board_from_image leave get_fen unhandled
GetFen_Respond ==
    /\ pc = "returned"
    /\ response' = IF result.kind = "board" THEN Ok(Fen(result.board))
                   ELSE InternalServerError
    /\ pc' = "responded"
    /\ UNCHANGED <<contours, placement, corners, warped, squares, idx, board,
                   result, log>>

Next ==
    \/ GetFen_Open
    \/ GetFen_DecodeFail
    \/ LoadBoard_FindCorners
    \/ LoadBoard_FindCornersRaise
    \/ LoadBoard_Warp
    \/ LoadBoard_Extract
    \/ LoadBoard_Classify
    \/ LoadBoard_ClassifyRaise
    \/ LoadBoard_ClassifyUnknown
    \/ LoadBoard_Return
    \/ GetFen_Respond

Spec == Init /\ [][Next]_vars

----------------------------------------------------------------------------
(* find_corners alone, on long contour lists.                              *)

Translate(sh, dx) == [k \in DOMAIN sh |-> <<sh[k][1] + dx, sh[k][2]>>]

\* an approximation with nv vertices, placed apart from those of the other
\* positions of the list
ShapeAt(nv, p) ==
    Translate(CASE nv = 3 -> TriangleShape
                [] nv = 4 -> SquareShape
                [] nv = 5 -> PentagonShape, 10 * p)

Kind(a, nv) == [area |-> a, nv |-> nv]

\* areas at, just above and well above the threshold, with 4 or 5 vertices;
\* and a large triangle
Kinds ==
    {Kind(a, nv) : a \in {MinArea, MinArea + 1, 2 * MinArea}, nv \in {4, 5}}
        \cup {Kind(2 * MinArea, 3)}

\* n contours of kind f, their areas growing by d from one to the next, but
\* for positions i and j, which hold kinds k1 and k2
CornerList(n, f, d, i, k1, j, k2) ==
    [p \in 1..n |->
        LET k == IF p = i THEN k1
                 ELSE IF p = j THEN k2
                 ELSE Kind(f.area + d * p, f.nv)
        IN  Contour(k.area, ShapeAt(k.nv, p))]

AnyPlacement == ByCoord([i \in 0..63 |-> "xx"])

InitCorners ==
    \E n \in 0..MaxContours, f \in Kinds, d \in {0, 1} :
        \E i \in 0..n, k1 \in Kinds, k2 \in {k \in Kinds : k.nv = 4} :
            \E j \in i..n :
                InitWith("find_corners_in",
                         CornerList(n, f, d, i, k1, j, k2), AnyPlacement,
                         NoCanvas)

\* find_corners, lines 190-207
Corners_Find ==
    /\ pc = "find_corners_in"
    /\ \E cs \in FindCorners(contours) :
        /\ corners' = cs
        /\ log' = Append(log, Call("find_corners", "",
                            IF cs = None THEN "None" ELSE "corners"))
    /\ pc' = "find_corners_out"
    /\ UNCHANGED <<contours, placement, warped, squares, idx, board, result,
                   response>>

NextCorners == Corners_Find

SpecCorners == InitCorners /\ [][NextCorners]_vars

----------------------------------------------------------------------------
(* extract_squares alone, on square canvases of every side.                *)

Sides == (8..MaxSide) \cup {output_size}

InitTiles ==
    \E side \in Sides :
        InitWith("extract_in", <<>>, AnyPlacement,
                 [height |-> side, width |-> side])

\* extract_squares, lines 262-274
Tiles_Extract ==
    /\ pc = "extract_in"
    /\ squares' = ExtractSquares(warped)
    /\ log' = Append(log, Call("extract_squares", "", ""))
    /\ pc' = "extract_out"
    /\ UNCHANGED <<contours, placement, corners, warped, idx, board, result,
                   response>>

NextTiles == Tiles_Extract

SpecTiles == InitTiles /\ [][NextTiles]_vars

----------------------------------------------------------------------------
(* _order_corners alone, on every 4 grid points of which no two are level  *)
(* and no two are one above the other, in every input order.               *)

Grid == (0..GridMax) \X (0..(2 * GridMax))

InitOrder ==
    \E a \in Grid, b \in Grid, c \in Grid, d \in Grid :
        /\ Cardinality({a[1], b[1], c[1], d[1]}) = 4
        /\ Cardinality({a[2], b[2], c[2], d[2]}) = 4
        /\ InitWith("order_in", <<Contour(2 * MinArea, <<a, b, c, d>>)>>,
                    AnyPlacement, NoCanvas)

\* _order_corners, lines 229-240, on the approx find_corners selected
Order_Apply ==
    /\ pc = "order_in"
    /\ \E cs \in OrderCorners(contours[1].approx) : corners' = cs
    /\ pc' = "order_out"
    /\ UNCHANGED <<contours, placement, warped, squares, idx, board, result,
                   response, log>>

NextOrder == Order_Apply

SpecOrder == InitOrder /\ [][NextOrder]_vars

----------------------------------------------------------------------------
(* The classification loop alone, the 64 results folded in other orders    *)
(* than the dict's as well.                                                *)

\* the items of a dict taken from the r-th on, every k-th (k odd)
Reordered(items, r, k) ==
    [i \in 1..Len(items) |-> items[(((i - 1) * k + r) % Len(items)) + 1]]

\* the state load_board_from_image is in at line 311, a board found
InitFold ==
    \E pl \in Placements, r \in 0..MaxRot, k \in {1, 3, 63} :
        /\ pc = "classify"
        /\ contours = <<Contour(2 * MinArea, SquareShape)>>
        /\ placement = pl
        /\ corners \in FindCorners(contours)
        /\ warped = WarpBoard(corners)
        /\ squares = Reordered(ExtractSquares(warped), r, k)
        /\ idx = 1
        /\ board = EmptyBoard
        /\ result = Pending
        /\ response = NoResponse
        /\ log = <<Call("find_corners", "", "corners"),
                   Call("warp_board", "", ""),
                   Call("extract_squares", "", "")>>

NextFold ==
    \/ LoadBoard_Classify
    \/ LoadBoard_Return

SpecFold == InitFold /\ [][NextFold]_vars

----------------------------------------------------------------------------
(* Properties of the whole pipeline (Spec).                                *)

CallsOf(f) == {i \in DOMAIN log : log[i].call = f}

StageRank(f) ==
    CASE f = "find_corners" -> 1
      [] f = "warp_board" -> 2
      [] f = "extract_squares" -> 3
      [] f = "detect_piece" -> 4

\* the calls made so far follow corner search, rectification, partitioning,
\* classification: the first is find_corners, each next one is the same
\* stage (classification only) or the stage after it
StagesInOrder ==
    /\ log # <<>> => log[1].call = "find_corners"
    /\ \A i \in 1..(Len(log) - 1) :
        \/ StageRank(log[i + 1].call) = StageRank(log[i].call) + 1
        \/ log[i].call = "detect_piece" /\ log[i + 1].call = "detect_piece"

\* find_corners reported no corners: the run has ended with None, nothing
\* else was called and nothing was built
AbortOnNoCorners ==
    (log # <<>> /\ log[1].out = "None") =>
        /\ corners = None
        /\ result = ReturnNone
        /\ Len(log) = 1
        /\ warped = NoCanvas /\ squares = <<>> /\ board = NoBoard

\* None is returned only for that reason
NoneOnlyWithoutCorners ==
    result.kind = "none" => (corners = None /\ log[1].out = "None")

\* a board is returned only after the three stages and 64 classifications
BoardAfterAllSquares ==
    result.kind = "board" =>
        /\ corners # None
        /\ Len(log) = 67
        /\ Cardinality(CallsOf("detect_piece")) = 64
        /\ result.board = board

\* an exception ends the run at the call that raised it, with no board
RaiseEndsRun ==
    /\ result.kind = "raise" =>
        /\ log[Len(log)].call \in {"find_corners", "detect_piece"}
        /\ log[Len(log)].out \notin Range(ClassNames) \cup {"None", "corners"}
        /\ result.board = NoBoard
    /\ \A i \in DOMAIN log :
        log[i].out \notin Range(ClassNames) \cup {"None", "corners", ""} =>
            (i = Len(log) /\ result.kind = "raise")

\* C1, as amended: the stages run in the fixed order corner search,
\* rectification, partitioning, classification, with no retry and no way
\* back; when find_corners reports no corners the run ends at once with
\* None and with nothing else called or built; otherwise it ends with a
\* board returned after all 64 squares were classified, or, when a call of
\* a stage fails, at that call with its exception and with no board.
C1_LinearPipeline ==
    /\ StagesInOrder
    /\ AbortOnNoCorners
    /\ NoneOnlyWithoutCorners
    /\ BoardAfterAllSquares
    /\ RaiseEndsRun

\* a run that went through every stage and returned its board
C1_Witness ==
    /\ result.kind = "board"
    /\ Len(log) = 67
    /\ log[3].call = "extract_squares"

\* C1 as stated: the same order, and the run ends in exactly one of two
\* outcomes, None or a board.
C1_TwoOutcomesOnly ==
    /\ StagesInOrder
    /\ AbortOnNoCorners
    /\ NoneOnlyWithoutCorners
    /\ BoardAfterAllSquares
    /\ result.kind \in {"pending", "none", "board"}

\* C2: a request whose image shows no board (load_board_from_image returned
\* None) is answered with a no-board result, not with an internal server
\* error.
C2_NoBoardAnswered ==
    (pc = "responded" /\ result.kind = "none") => response.status # 500

\* a classification call that failed: it raised, or answered a name outside
\* the 13 class names
FailedCalls ==
    {i \in CallsOf("detect_piece") : log[i].out \notin Range(ClassNames)}

\* C3: all or nothing.  Once a classification call has failed, at whatever
\* position of the loop, load_board_from_image returns no board and get_fen
\* answers no position; a board that is returned has all 64 squares
\* classified, each with one of the 13 class names.
C3_AllOrNothing ==
    /\ FailedCalls # {} =>
        /\ result.kind = "raise"
        /\ result.board = NoBoard
        /\ response.status # 200
    /\ result.kind = "board" =>
        /\ FailedCalls = {}
        /\ {log[i].arg : i \in CallsOf("detect_piece")} = AllCoords

\* a failure in the middle of the loop, pieces already on the board
C3_Witness ==
    /\ FailedCalls # {}
    /\ idx > 1
    /\ board # EmptyBoard
    /\ pc = "responded"

\* C7: in a request that returns a board, detect_piece was called exactly 64
\* times, exactly once for each of the 64 coordinates, empty or not; and at
\* no moment was a coordinate classified twice.
C7_OncePerSquare ==
    LET calls == CallsOf("detect_piece")
        classified == {log[i].arg : i \in calls}
    IN  /\ Cardinality(classified) = Cardinality(calls)
        /\ classified \subseteq AllCoords
        /\ result.kind = "board" =>
            /\ Cardinality(calls) = 64
            /\ classified = AllCoords

\* the board of the initial position returned: 32 squares hold a piece and
\* 32 are empty
C7_Witness ==
    /\ result.kind = "board"
    /\ placement = ByCoord(StartPlacement)
    /\ Cardinality({i \in 0..63 : result.board[i] = NoPiece}) = 32

\* twice the signed area of the triangle o, a, b
Cross(o, a, b) ==
    (a[1] - o[1]) * (b[2] - o[2]) - (a[2] - o[2]) * (b[1] - o[1])

\* the 4 points, walked in the order given, are the perimeter of a convex
\* quadrilateral: every turn is a strict turn to the same side
ConvexCycle(q) ==
    LET turn(i) == Cross(q[i], q[(i % 4) + 1], q[((i + 1) % 4) + 1])
    IN  \/ \A i \in 1..4 : turn(i) > 0
        \/ \A i \in 1..4 : turn(i) < 0

\* the 4 points are the corners of a convex quadrilateral, in some order
ConvexPosition(q) == \E p \in Perms4 : ConvexCycle([i \in 1..4 |-> q[p[i]]])

\* C8: corners that do not span a convex quadrilateral never reach the
\* transform or a later stage, and no board comes of them.
C8_DegenerateGuarded ==
    (corners # None /\ ~ConvexPosition(corners)) =>
        /\ CallsOf("warp_board") = {}
        /\ CallsOf("extract_squares") = {}
        /\ CallsOf("detect_piece") = {}
        /\ result.kind # "board"

----------------------------------------------------------------------------
(* Properties of the classification loop (SpecFold).                       *)

\* the colour and the piece type a class name names
NamedColour(l) ==
    IF l \in {"wP", "wN", "wB", "wR", "wQ", "wK"} THEN "WHITE" ELSE "BLACK"

NamedType(l) ==
    CASE l \in {"wP", "bP"} -> "PAWN"
      [] l \in {"wN", "bN"} -> "KNIGHT"
      [] l \in {"wB", "bB"} -> "BISHOP"
      [] l \in {"wR", "bR"} -> "ROOK"
      [] l \in {"wQ", "bQ"} -> "QUEEN"
      [] l \in {"wK", "bK"} -> "KING"

\* C4: the board returned holds, on each of the 64 coordinates (file f, rank
\* r, square 8 * (r - 1) + (f - 1) of the board), the piece of the colour and
\* type its known label names, and no piece where the label is "xx";
\* whatever the order the 64 results were folded in.
C4_RoundTrip ==
    result.kind = "board" =>
        \A f \in 1..8, r \in 1..8 :
            LET label == placement[FILE_NAMES[f] \o RANK_NAMES[r]]
                held == result.board[8 * (r - 1) + (f - 1)]
            IN  IF label = "xx" THEN held = NoPiece
                ELSE /\ held.color = NamedColour(label)
                     /\ held.piece_type = NamedType(label)

\* a board returned after the results were folded in another order than the
\* dict's, pieces of both colours and empty squares among them
C4_Witness ==
    /\ result.kind = "board"
    /\ squares[1].name # "a8"
    /\ \E i, j, k \in 0..63 :
        /\ result.board[i].color = "WHITE"
        /\ result.board[j].color = "BLACK"
        /\ result.board[k] = NoPiece

----------------------------------------------------------------------------
(* Properties of extract_squares (SpecTiles).                              *)

\* the rows and the columns of the canvas a tile holds
TileRows(t) == t.y0 .. (t.y1 - 1)
TileCols(t) == t.x0 .. (t.x1 - 1)

\* C5: on a canvas of side S >= 8, extract_squares yields 64 tiles of side
\* S div 8; the tile of grid position (row, col) spans the rows
\* [row * (S div 8), (row + 1) * (S div 8)) and the columns alike; so every
\* pixel left of and above the S mod 8 trailing columns and rows lies in
\* exactly one tile, the trailing ones lie in none, and neighbours meet
\* without a gap.
C5_Tiling ==
    pc = "extract_out" =>
        LET S == warped.height
            q == S \div 8
            covered == S - (S % 8)
        IN  /\ Len(squares) = 64
            /\ \A i \in 1..64 :
                /\ squares[i].tile.y1 - squares[i].tile.y0 = q
                /\ squares[i].tile.x1 - squares[i].tile.x0 = q
            /\ \A row \in 0..7, col \in 0..7 :
                LET t == squares[8 * row + col + 1].tile
                IN  /\ TileRows(t) = (row * q) .. ((row + 1) * q - 1)
                    /\ TileCols(t) = (col * q) .. ((col + 1) * q - 1)
            /\ \A i \in 1..63 :
                IF i % 8 # 0
                THEN squares[i + 1].tile.x0 = squares[i].tile.x1
                ELSE /\ squares[i].tile.x1 = covered
                     /\ squares[i + 1].tile.x0 = 0
                     /\ squares[i + 1].tile.y0 = squares[i].tile.y1
            /\ squares[1].tile.y0 = 0 /\ squares[1].tile.x0 = 0
            /\ squares[64].tile.y1 = covered /\ squares[64].tile.x1 = covered
            /\ S <= MaxSide =>
                \A y \in 0..(S - 1), x \in 0..(S - 1) :
                    Cardinality({i \in 1..64 :
                        /\ y \in TileRows(squares[i].tile)
                        /\ x \in TileCols(squares[i].tile)})
                    = IF y < covered /\ x < covered THEN 1 ELSE 0

\* a canvas whose side is no multiple of 8, partitioned
C5_Witness ==
    /\ pc = "extract_out"
    /\ warped.height % 8 # 0
    /\ Len(squares) = 64

\* C6: the tile of grid position (row r, column c) is keyed with the c-th
\* letter of a..h followed by the digit of rank 8 - r; the 64 keys are the
\* 64 board coordinates, none twice and none missing.
C6_KeysBijective ==
    pc = "extract_out" =>
        LET q == warped.height \div 8
        IN  /\ \A r \in 0..7, c \in 0..7 :
                \E i \in DOMAIN squares :
                    /\ squares[i].name = FILE_NAMES[c + 1] \o RANK_NAMES[8 - r]
                    /\ squares[i].tile.y0 = r * q
                    /\ squares[i].tile.x0 = c * q
            /\ Len(squares) = 64
            /\ {squares[i].name : i \in DOMAIN squares} = AllCoords
            /\ Cardinality(AllCoords) = 64

\* the dict of a partitioned canvas: a8 first, h1 last
C6_Witness ==
    /\ pc = "extract_out"
    /\ squares[1].name = "a8"
    /\ squares[64].name = "h1"

----------------------------------------------------------------------------
(* Properties of find_corners (SpecCorners).                               *)

\* the place of contour i in the descending order of areas, from 0; of two
\* contours of equal area the one found first comes first
AreaRank(i) ==
    Cardinality({j \in DOMAIN contours :
        \/ contours[j].area > contours[i].area
        \/ contours[j].area = contours[i].area /\ j < i})

\* C9: find_corners looks at the 10 contours of largest area only, in
\* descending order of area, and selects the first whose approximation has
\* exactly 4 vertices and whose area is greater than 10000; it reports "not
\* found" exactly when none of the 10 qualifies.
C9_Selection ==
    pc = "find_corners_out" =>
        LET qualifying ==
                {i \in DOMAIN contours :
                    /\ AreaRank(i) < 10
                    /\ Len(contours[i].approx) = 4
                    /\ contours[i].area > 10000}
        IN  IF qualifying = {} THEN corners = None
            ELSE \E i \in qualifying :
                    /\ \A j \in qualifying : AreaRank(i) <= AreaRank(j)
                    /\ corners # None
                    /\ Range(corners) = Range(contours[i].approx)

\* not found, although a contour ranked 11th or lower qualifies: the first
\* 10 are larger and have 5 vertices
C9_Witness ==
    /\ pc = "find_corners_out"
    /\ corners = None
    /\ \E i \in DOMAIN contours :
        /\ AreaRank(i) >= 10
        /\ Len(contours[i].approx) = 4 /\ contours[i].area > 10000
    /\ \A j \in DOMAIN contours :
        AreaRank(j) < 10 => Len(contours[j].approx) = 5

----------------------------------------------------------------------------
(* Properties of _order_corners (SpecOrder).                               *)

\* C10: for 4 points that are the corners of a convex quadrilateral, in any
\* input order, _order_corners returns the same 4 points in an order that
\* walks the perimeter once: consecutive points (and the last with the
\* first) are adjacent corners, no two opposite corners are put next to each
\* other.
C10_PerimeterOrder ==
    (pc = "order_out" /\ ConvexPosition(contours[1].approx)) =>
        /\ Range(corners) = Range(contours[1].approx)
        /\ ConvexCycle(corners)

=============================================================================
